---- MODULE Spec2Model ----
(***************************************************************************)
(* A model of downloader.py: the script that enumerates the records of the *)
(* IODP community on Zenodo (get_iodp_records), writes the metadata index  *)
(* (save_metadata) and mirrors every attached file (download_record_data,  *)
(* download_file).  The remote service and the local filesystem are the    *)
(* environment: every request is answered by a nondeterministic choice of  *)
(* the outcomes the requests library and the OS can produce.               *)
(***************************************************************************)
EXTENDS Integers, Sequences, FiniteSets, TLC

VARIABLES
    apiKey,         \* ZENODO_API_KEY is set in the environment (line 25)
    debug,          \* debug_mode of main (line 188)
    remote,         \* the community's record listing on the server, in listing order
    cap,            \* the largest page the server is willing to serve
    fs,             \* local files under data/: path -> content
    index,          \* data/iodp_metadata.json: the ids it lists (<<>> when never written)
    pc,             \* where the script is
    second,         \* this is the second run of the script over the same data/
    exitCode,       \* the process's exit status once it has ended (-1 while running)
    page,           \* get_iodp_records: page
    all_records,    \* get_iodp_records: all_records; afterwards main's records
    list_status,    \* status of the last listing response (0: none, or no response)
    listReqs,       \* pages requested from the listing API in this run, in order
    ri,             \* main: index of the record being mirrored (line 211)
    fi,             \* download_record_data: index of the file being mirrored (line 150)
    success_count,  \* download_record_data: success_count
    calls,          \* download_file calls of this run, in order: [ri, fi, ret]
    last,           \* what the last download_file call met: [kind, status, ret, path]
    dlReqs,         \* file-download requests issued in this run
    metaWrites,     \* writes of the metadata index in this run
    fsStart         \* fs as this run found it

vars == <<apiKey, debug, remote, cap, fs, index, pc, second, exitCode, page,
          all_records, list_status, listReqs, ri, fi, success_count, calls,
          last, dlReqs, metaWrites, fsStart>>

(***************************************************************************)
(* Bounds of the model.                                                    *)
(***************************************************************************)
MaxRemote == 2       \* records of a listing whose files are mirrored
MaxEnumerated == 3   \* records a (misbehaving) server hands out in one run
MaxFiles == 3        \* attached files over the records of one run
MaxRerunFiles == 2   \* attached files over the records of a listing mirrored twice
MaxRecords == 101    \* records of a listing that is only enumerated
MaxCap == 3          \* server-side page caps below the requested size
MaxTitleLen == 3     \* length of the exhaustively enumerated titles

(***************************************************************************)
(* Program constants.                                                      *)
(***************************************************************************)
DEFAULT_SIZE == 50   \* size = 2 if debug else 50
DEBUG_LIMIT == 2     \* debug mode: page size, record cap and file cap
TITLE_LIMIT == 100   \* safe_title[:100]

Min(a, b) == IF a < b THEN a ELSE b

Take(s, n) == SubSeq(s, 1, Min(n, Len(s)))

(***************************************************************************)
(* Characters.  A title is a sequence of one-character strings.            *)
(***************************************************************************)
AlnumChars == {"a", "7", "U", "n", "k", "o", "w", "T", "i", "t", "l", "e", "L", "g", "1"}

KeptPunct == {" ", "-", "_"}

Alphabet == {"a", "7", " ", "-", "_", "/"}

\* c.isalnum()
isalnum(c) == c \in AlnumChars


(***************************************************************************)
(* download_file, lines 100-102: the per-title directory name.             *)
(***************************************************************************)
\* c.isalnum() or c in (' ', '-', '_')
Kept(c) == isalnum(c) \/ c \in KeptPunct

\* "".join(c for c in record_title if ...)
KeepSafe(t) == SelectSeq(t, Kept)

\* str.rstrip(): trailing whitespace removed (of the kept characters only the
\* space is whitespace)
rstrip(t) ==
    LET solid == { i \in 1..Len(t) : t[i] # " " } IN
    IF solid = {} THEN <<>>
    ELSE SubSeq(t, 1, CHOOSE i \in solid : \A j \in solid : j <= i)

safe_title(record_title) == rstrip(KeepSafe(record_title))

\* a plausible slip: the length limit is forgotten
title_dir_unlimited(record_title) == safe_title(record_title)

\* title_dir = record_dir / safe_title[:100]
title_dir(record_title) == Take(safe_title(record_title), TITLE_LIMIT)

UnknownTitle == <<"U", "n", "k", "n", "o", "w", "n", " ", "T", "i", "t", "l", "e">>

\* record['metadata'].get('title', 'Unknown Title')
TitleOf(record) ==
    IF record.title.present THEN record.title.text ELSE UnknownTitle

\* file_info.get('size', 0); a file entry without a size carries -1 here
SizeOf(file_info) == IF file_info.size < 0 THEN 0 ELSE file_info.size

\* file_path = data_dir / f"record_{record_id}" / safe_title[:100] / filename
file_path(record, file_info) ==
    [id |-> record.id, dir |-> title_dir(TitleOf(record)), key |-> file_info.key]

(***************************************************************************)
(* Local files.  A content is its byte length and where the bytes came     *)
(* from; all empty files are the same file.                                *)
(***************************************************************************)
Content(len, src) == IF len = 0 THEN [len |-> 0, src |-> "none"] ELSE [len |-> len, src |-> src]

\* open(file_path, 'wb') followed by the writes: the file now holds c
WriteFile(f, p, c) == [q \in (DOMAIN f) \cup {p} |-> IF q = p THEN c ELSE f[q]]

\* a plausible slip: the size is not compared
already_downloaded_any_size(f, p, file_info) == p \in DOMAIN f

\* a plausible slip: != for == in the size test
already_downloaded_inverted(f, p, file_info) ==
    p \in DOMAIN f /\ f[p].len # SizeOf(file_info)

\* file_path.exists() and file_path.stat().st_size == file_size
already_downloaded(f, p, file_info) ==
    p \in DOMAIN f /\ f[p].len = SizeOf(file_info)

\* response.raise_for_status() raises (requests: 400 <= status_code < 600)
raise_for_status(status) == status >= 400 /\ status < 600

(***************************************************************************)
(* download_file, lines 96-128, as a function of what the environment does *)
(* to it.  An outcome o says whether the two mkdir calls succeed, which    *)
(* status the download request is answered with (0: requests.get raises)   *)
(* and how writing the target goes.  The result is the new filesystem, the *)
(* return value (none when the call raises), whether a request went out,   *)
(* and whether an exception leaves the call.                               *)
(***************************************************************************)
Statuses == {200, 304, 404, 500}

\* the later fields of an outcome whose earlier fields end the call are left
\* at their first value: they are never looked at.  Every response that
\* raise_for_status lets through reaches lines 118-121, where open or the
\* stream can fail.  got is the number of bytes iter_content has delivered,
\* and the loop has written, when the stream breaks: anything from none to
\* the whole body (at most 2 bytes here), which only a 200 response carries
DownloadOutcomes ==
    { o \in [mkdir : BOOLEAN, status : Statuses \cup {0},
             io : {"ok", "open_error", "stream_error"}, got : 0..2] :
        /\ ~o.mkdir => o.status = 0
        /\ (o.status = 0 \/ raise_for_status(o.status)) => o.io = "ok"
        /\ (o.io # "stream_error" \/ o.status # 200) => o.got = 0 }

\* the body the server sends: the file's bytes with a 200, nothing otherwise
BodyLen(file_info, status) == IF status = 200 THEN file_info.body ELSE 0

\* the bytes written (lines 119-121) before iter_content raises: those that
\* had arrived, at most the whole body
PartialLen(file_info, o) == Min(o.got, BodyLen(file_info, o.status))

\* a plausible slip: the target is opened before the status is checked
download_file_open_first(f, p, file_info, o) ==
    IF ~o.mkdir
    THEN [fs |-> f, kind |-> "mkdir_error", status |-> 0, ret |-> FALSE, requested |-> FALSE,
          raised |-> TRUE]
    ELSE IF already_downloaded(f, p, file_info)
    THEN [fs |-> f, kind |-> "skip", status |-> 0, ret |-> TRUE, requested |-> FALSE, raised |-> FALSE]
    ELSE IF o.status = 0
    THEN [fs |-> f, kind |-> "net_error", status |-> 0, ret |-> FALSE, requested |-> TRUE, raised |-> FALSE]
    ELSE IF o.io = "open_error"
    THEN [fs |-> f, kind |-> "open_error", status |-> o.status, ret |-> FALSE,
          requested |-> TRUE, raised |-> FALSE]
    ELSE IF raise_for_status(o.status)
    THEN [fs |-> WriteFile(f, p, Content(0, "none")), kind |-> "http_error",
          status |-> o.status, ret |-> FALSE, requested |-> TRUE, raised |-> FALSE]
    ELSE IF o.io = "stream_error"
    THEN [fs |-> WriteFile(f, p, Content(PartialLen(file_info, o), "remote")),
          kind |-> "stream_error",
          status |-> o.status, ret |-> FALSE, requested |-> TRUE, raised |-> FALSE]
    ELSE [fs |-> WriteFile(f, p, Content(BodyLen(file_info, o.status), "remote")),
          kind |-> "ok", status |-> o.status, ret |-> TRUE, requested |-> TRUE, raised |-> FALSE]

\* a plausible slip: raise_for_status is called outside the try
download_file_status_uncaught(f, p, file_info, o) ==
    IF ~o.mkdir
    THEN [fs |-> f, kind |-> "mkdir_error", status |-> 0, ret |-> FALSE, requested |-> FALSE,
          raised |-> TRUE]
    ELSE IF already_downloaded(f, p, file_info)
    THEN [fs |-> f, kind |-> "skip", status |-> 0, ret |-> TRUE, requested |-> FALSE,
          raised |-> FALSE]
    ELSE IF o.status = 0
    THEN [fs |-> f, kind |-> "net_error", status |-> 0, ret |-> FALSE, requested |-> TRUE,
          raised |-> FALSE]
    ELSE IF raise_for_status(o.status)
    THEN [fs |-> f, kind |-> "http_error", status |-> o.status, ret |-> FALSE,
          requested |-> TRUE, raised |-> TRUE]
    ELSE IF o.io = "open_error"
    THEN [fs |-> f, kind |-> "open_error", status |-> o.status, ret |-> FALSE,
          requested |-> TRUE, raised |-> FALSE]
    ELSE IF o.io = "stream_error"
    THEN [fs |-> WriteFile(f, p, Content(PartialLen(file_info, o), "remote")),
          kind |-> "stream_error",
          status |-> o.status, ret |-> FALSE, requested |-> TRUE, raised |-> FALSE]
    ELSE [fs |-> WriteFile(f, p, Content(BodyLen(file_info, o.status), "remote")),
          kind |-> "ok", status |-> o.status, ret |-> TRUE, requested |-> TRUE,
          raised |-> FALSE]

download_file_result(f, p, file_info, o) ==
    IF ~o.mkdir
    \* record_dir.mkdir / title_dir.mkdir raise, outside the try (lines 98, 103)
    THEN [fs |-> f, kind |-> "mkdir_error", status |-> 0, ret |-> FALSE, requested |-> FALSE,
          raised |-> TRUE]
    ELSE IF already_downloaded(f, p, file_info)
    \* lines 108-110
    THEN [fs |-> f, kind |-> "skip", status |-> 0, ret |-> TRUE, requested |-> FALSE, raised |-> FALSE]
    ELSE IF o.status = 0
    \* requests.get raises (line 115), caught at line 126
    THEN [fs |-> f, kind |-> "net_error", status |-> 0, ret |-> FALSE, requested |-> TRUE, raised |-> FALSE]
    ELSE IF raise_for_status(o.status)
    \* line 116, caught at line 126
    THEN [fs |-> f, kind |-> "http_error", status |-> o.status, ret |-> FALSE,
          requested |-> TRUE, raised |-> FALSE]
    ELSE IF o.io = "open_error"
    \* open(file_path, 'wb') raises (line 118), caught at line 126
    THEN [fs |-> f, kind |-> "open_error", status |-> o.status, ret |-> FALSE,
          requested |-> TRUE, raised |-> FALSE]
    ELSE IF o.io = "stream_error"
    \* the target is open, hence truncated, and holds the chunks written so far
    \* when iter_content raises (lines 118-121), caught at line 126
    THEN [fs |-> WriteFile(f, p, Content(PartialLen(file_info, o), "remote")),
          kind |-> "stream_error",
          status |-> o.status, ret |-> FALSE, requested |-> TRUE, raised |-> FALSE]
    \* lines 118-124
    ELSE [fs |-> WriteFile(f, p, Content(BodyLen(file_info, o.status), "remote")),
          kind |-> "ok", status |-> o.status, ret |-> TRUE, requested |-> TRUE, raised |-> FALSE]

\* a plausible slip: the debug limit on files is forgotten
files_to_process_all(record, dbg) == record.files

\* download_record_data, lines 134-138
files_to_process(record, dbg) ==
    IF dbg /\ Len(record.files) > DEBUG_LIMIT
    THEN SubSeq(record.files, 1, DEBUG_LIMIT)
    ELSE record.files

(***************************************************************************)
(* get_iodp_records, lines 47-85: one pass of the loop over a response     *)
(* that arrived and, with a 200, parsed.  resp = [status, json, hits,      *)
(* total]; a missing 'total' is total = 0 and missing hits are <<>>.       *)
(***************************************************************************)
\* size = 2 if debug else 50
size(dbg) == IF dbg THEN DEBUG_LIMIT ELSE DEFAULT_SIZE

\* a plausible slip: an error response discards what was accumulated
page_step_drop_on_error(all, pg, dbg, resp) ==
    IF resp.status # 200
    THEN [all_records |-> <<>>, page |-> pg, stop |-> TRUE]
    ELSE IF resp.hits = <<>>
    THEN [all_records |-> all, page |-> pg, stop |-> TRUE]
    ELSE LET ext == all \o resp.hits IN
         IF dbg /\ Len(ext) >= DEBUG_LIMIT
         THEN [all_records |-> SubSeq(ext, 1, DEBUG_LIMIT), page |-> pg, stop |-> TRUE]
         ELSE IF Len(ext) >= resp.total
         THEN [all_records |-> ext, page |-> pg, stop |-> TRUE]
         ELSE [all_records |-> ext, page |-> pg + 1, stop |-> FALSE]

\* a plausible slip: > for >= in the test against the reported total
page_step_strict(all, pg, dbg, resp) ==
    IF resp.status # 200
    THEN [all_records |-> all, page |-> pg, stop |-> TRUE]
    ELSE IF resp.hits = <<>>
    THEN [all_records |-> all, page |-> pg, stop |-> TRUE]
    ELSE LET ext == all \o resp.hits IN
         IF dbg /\ Len(ext) >= DEBUG_LIMIT
         THEN [all_records |-> SubSeq(ext, 1, DEBUG_LIMIT), page |-> pg, stop |-> TRUE]
         ELSE IF Len(ext) > resp.total
         THEN [all_records |-> ext, page |-> pg, stop |-> TRUE]
         ELSE [all_records |-> ext, page |-> pg + 1, stop |-> FALSE]

page_step(all, pg, dbg, resp) ==
    IF resp.status # 200
    \* lines 60-63
    THEN [all_records |-> all, page |-> pg, stop |-> TRUE]
    ELSE IF resp.hits = <<>>
    \* lines 68-69
    THEN [all_records |-> all, page |-> pg, stop |-> TRUE]
    ELSE LET ext == all \o resp.hits IN
         IF dbg /\ Len(ext) >= DEBUG_LIMIT
         \* lines 75-77
         THEN [all_records |-> SubSeq(ext, 1, DEBUG_LIMIT), page |-> pg, stop |-> TRUE]
         ELSE IF Len(ext) >= resp.total
         \* lines 80-82
         THEN [all_records |-> ext, page |-> pg, stop |-> TRUE]
         \* line 84
         ELSE [all_records |-> ext, page |-> pg + 1, stop |-> FALSE]

(***************************************************************************)
(* The remote community: records and their files.                          *)
(***************************************************************************)
FileA == [key |-> "a", size |-> 1, body |-> 1]
FileA2 == [key |-> "a", size |-> 2, body |-> 2]    \* a second entry of the same name
FileB == [key |-> "b", size |-> 2, body |-> 2]
FileC == [key |-> "c", size |-> -1, body |-> 1]    \* an entry that reports no size

Absent == [present |-> FALSE, text |-> <<>>]

Titled(t) == [present |-> TRUE, text |-> t]

Shapes ==
    { [title |-> Absent, files |-> <<>>],
      [title |-> Titled(<<"L", "e", "g", " ", "1", "/", "a", " ">>), files |-> <<FileA>>],
      [title |-> Titled(<<"a", "_", "7">>), files |-> <<FileA, FileB, FileC>>],
      [title |-> Titled(<<>>), files |-> <<FileA, FileA2>>] }

Rec(i, shape) == [id |-> i, title |-> shape.title, files |-> shape.files]

RECURSIVE TotalFiles(_)
TotalFiles(records) ==
    IF records = <<>> THEN 0
    ELSE Len(Head(records).files) + TotalFiles(Tail(records))

\* the listings of at most MaxRemote records of the given shapes that carry
\* at most maxFiles files
ListingsOf(shapes, maxFiles) ==
    { l \in UNION { { [i \in 1..n |-> Rec(i, sh[i])] : sh \in [1..n -> shapes] } :
                    n \in 0..MaxRemote } :
        TotalFiles(l) <= maxFiles }

Listings == ListingsOf(Shapes, MaxFiles)

\* the listings that are mirrored twice: fewer files, and a record without a
\* title whose files are one with a reported size and one without
RerunShapes == Shapes \cup { [title |-> Absent, files |-> <<FileB, FileC>>] }

RerunListings == ListingsOf(RerunShapes, MaxRerunFiles)

\* a listing that is only enumerated: n records without files
PlainListing(n) == [i \in 1..n |-> Rec(i, [title |-> Absent, files |-> <<>>])]

NoFiles == << >>

\* what data/ may hold before the first run: nothing, or one file left at the
\* path of the first record's first file, of the reported size or of another
InitialFs(listing) ==
    {NoFiles} \cup
    IF listing # <<>> /\ listing[1].files # <<>>
    THEN { WriteFile(NoFiles, file_path(listing[1], listing[1].files[1]), Content(n, "stale")) :
             n \in 1..2 }
    ELSE {}

(***************************************************************************)
(* Titles for the directory-name check: every short title, and titles of   *)
(* lengths around the limit.                                               *)
(***************************************************************************)
ShortTitles == UNION { [1..k -> Alphabet] : k \in 0..MaxTitleLen }

Cycle(t, n) == [i \in 1..n |-> t[((i - 1) % Len(t)) + 1]]

\* a short head, then one character repeated up to and past the limit
LongTitles ==
    { t \o Cycle(<<c>>, n) : t \in UNION { [1..k -> Alphabet] : k \in 0..1 },
                             c \in Alphabet,
                             n \in (TITLE_LIMIT - 1)..(TITLE_LIMIT + MaxTitleLen) }

Titles == ShortTitles \cup LongTitles

(***************************************************************************)
(* The listing API.                                                        *)
(***************************************************************************)
\* page pg of the listing as a server serving pages of n records serves it
HonestPage(listing, pg, n) ==
    SubSeq(listing, Min((pg - 1) * n, Len(listing)) + 1, Min(pg * n, Len(listing)))

NoResponse == [status |-> 0, json |-> FALSE, hits |-> <<>>, total |-> 0]

ErrorResponses ==
    { [status |-> st, json |-> FALSE, hits |-> <<>>, total |-> 0] : st \in {429, 500} }

Unparsable == [status |-> 200, json |-> FALSE, hits |-> <<>>, total |-> 0]

\* a server that keeps to offset pagination and reports the true total; it
\* serves at most cap records a page
HonestResponse ==
    [status |-> 200, json |-> TRUE,
     hits |-> HonestPage(remote, page, Min(size(debug), cap)),
     total |-> Len(remote)]

EnumResponses == {NoResponse, Unparsable, HonestResponse} \cup ErrorResponses

\* the pages a server that does not keep to the protocol may send for a
\* request: the page of a server that serves one record a page, the page that
\* was asked for, the whole listing whatever the page, or nothing
AnyHits ==
    { HonestPage(remote, page, 1), HonestPage(remote, page, size(debug)), remote, <<>> }

\* any server: no response, an error, an unparsable body, or one of these
\* pages with a total that is missing, true or too large; within the model's
\* bounds on what one run enumerates
AnyResponses ==
    {NoResponse, Unparsable} \cup ErrorResponses \cup
    { r \in [status : {200}, json : {TRUE}, hits : AnyHits,
             total : {0, Len(remote), Len(remote) + 1}] :
        /\ Len(all_records) + Len(r.hits) <= MaxEnumerated
        /\ TotalFiles(all_records \o r.hits) <= MaxFiles }

(***************************************************************************)
(* The script.                                                             *)
(***************************************************************************)
NoCall == [kind |-> "none", status |-> 0, ret |-> FALSE,
           path |-> [id |-> 0, dir |-> <<>>, key |-> ""]]

\* a fresh interpreter: nothing of a previous run is kept but data/
Fresh ==
    /\ pc = "import"
    /\ exitCode = -1
    /\ page = 1
    /\ all_records = <<>>
    /\ list_status = 0
    /\ listReqs = <<>>
    /\ ri = 1
    /\ fi = 1
    /\ success_count = 0
    /\ calls = <<>>
    /\ last = NoCall
    /\ dlReqs = 0
    /\ metaWrites = 0
    /\ fsStart = fs

Init ==
    /\ apiKey \in BOOLEAN
    /\ debug \in BOOLEAN
    /\ remote \in Listings
    /\ cap = DEFAULT_SIZE
    /\ fs = NoFiles
    /\ index = <<>>
    /\ second = FALSE
    /\ Fresh

InitStale ==
    /\ apiKey \in BOOLEAN
    /\ debug \in BOOLEAN
    /\ remote \in Listings
    /\ cap = DEFAULT_SIZE
    /\ fs \in InitialFs(remote)
    /\ index = <<>>
    /\ second = FALSE
    /\ Fresh

\* the start of a mirror that is run twice
InitRerun ==
    /\ apiKey \in BOOLEAN
    /\ debug \in BOOLEAN
    /\ remote \in RerunListings
    /\ cap = DEFAULT_SIZE
    /\ fs \in InitialFs(remote)
    /\ index = <<>>
    /\ second = FALSE
    /\ Fresh

InitEnum ==
    /\ apiKey \in BOOLEAN
    /\ debug \in BOOLEAN
    /\ remote \in { PlainListing(n) : n \in 0..MaxRecords }
    /\ cap \in (1..MaxCap) \cup {DEFAULT_SIZE}
    /\ fs = NoFiles
    /\ index = <<>>
    /\ second = FALSE
    /\ Fresh

InitTitle ==
    /\ apiKey = TRUE
    /\ debug = FALSE
    /\ remote \in { <<Rec(1, [title |-> Titled(t), files |-> fl])>> :
                      t \in Titles, fl \in {<<>>, <<FileA>>} }
    /\ cap = DEFAULT_SIZE
    /\ fs = NoFiles
    /\ index = <<>>
    /\ second = FALSE
    /\ Fresh

\* a plausible slip: the key is not checked before main runs
check_api_key_late ==
    /\ pc = "import"
    /\ pc' = "fetch"
    /\ UNCHANGED <<apiKey, debug, remote, cap, fs, index, second, exitCode, page,
                   all_records, list_status, listReqs, ri, fi, success_count, calls,
                   last, dlReqs, metaWrites, fsStart>>

\* lines 25-29, then main up to the first listing request (lines 179-196, 45-47)
check_api_key ==
    /\ pc = "import"
    /\ IF ~apiKey
       THEN pc' = "no_key" /\ exitCode' = 1      \* sys.exit(1)
       ELSE pc' = "fetch" /\ exitCode' = exitCode
    /\ UNCHANGED <<apiKey, debug, remote, cap, fs, index, second, page, all_records,
                   list_status, listReqs, ri, fi, success_count, calls, last, dlReqs,
                   metaWrites, fsStart>>

\* get_iodp_records: one pass of the loop, lines 49-85, and the return (87-88)
get_iodp_records(resp) ==
    /\ pc = "fetch"
    /\ listReqs' = Append(listReqs, page)
    /\ list_status' = resp.status
    /\ IF resp.status = 0 \/ (resp.status = 200 /\ ~resp.json)
       \* requests.get (line 58) or response.json() (line 65) raises: nothing
       \* catches it
       THEN /\ pc' = "crashed"
            /\ exitCode' = 1
            /\ UNCHANGED <<page, all_records>>
       ELSE LET r == page_step(all_records, page, debug, resp) IN
            /\ all_records' = r.all_records
            /\ page' = r.page
            /\ pc' = IF r.stop THEN "fetched" ELSE "fetch"
            /\ exitCode' = exitCode
    /\ UNCHANGED <<apiKey, debug, remote, cap, fs, index, second, ri, fi,
                   success_count, calls, last, dlReqs, metaWrites, fsStart>>

\* main, lines 198-200: return, the process ends with status 0
main_no_records ==
    /\ pc = "fetched"
    /\ all_records = <<>>
    /\ pc' = "no_records"
    /\ exitCode' = 0
    /\ UNCHANGED <<apiKey, debug, remote, cap, fs, index, second, page, all_records,
                   list_status, listReqs, ri, fi, success_count, calls, last, dlReqs,
                   metaWrites, fsStart>>

\* main, line 203: save_metadata (lines 156-177) overwrites the index
save_metadata ==
    /\ pc = "fetched"
    /\ all_records # <<>>
    /\ index' = [i \in 1..Len(all_records) |-> all_records[i].id]
    /\ metaWrites' = metaWrites + 1
    /\ pc' = "mirror"
    /\ ri' = 1
    /\ fi' = 1
    /\ UNCHANGED <<apiKey, debug, remote, cap, fs, second, exitCode, page, all_records,
                   list_status, listReqs, success_count, calls, last, dlReqs, fsStart>>

\* the loops of main (line 211) and download_record_data (line 150) move on;
\* after the last record main falls through and the process ends with status 0
Advance(nfiles) ==
    IF fi < nfiles
    THEN /\ fi' = fi + 1
         /\ UNCHANGED <<ri, pc, exitCode>>
    ELSE /\ fi' = 1
         /\ IF ri < Len(all_records)
            THEN ri' = ri + 1 /\ UNCHANGED <<pc, exitCode>>
            ELSE ri' = ri /\ pc' = "done" /\ exitCode' = 0

\* download_record_data on a record without files, lines 132-147
download_record_data_no_files ==
    /\ pc = "mirror"
    /\ files_to_process(all_records[ri], debug) = <<>>
    /\ Advance(0)
    /\ UNCHANGED <<apiKey, debug, remote, cap, fs, index, second, page, all_records,
                   list_status, listReqs, success_count, calls, last, dlReqs,
                   metaWrites, fsStart>>

\* one pass of the loop of download_record_data, lines 150-152 (and 149, 154
\* around it): download_file on the current file, under outcome o
download_file(o) ==
    /\ pc = "mirror"
    /\ files_to_process(all_records[ri], debug) # <<>>
    /\ LET record == all_records[ri]
           files == files_to_process(record, debug)
           file_info == files[fi]
           p == file_path(record, file_info)
           r == download_file_result(fs, p, file_info, o)
           before == IF fi = 1 THEN 0 ELSE success_count
       IN /\ fs' = r.fs
          /\ last' = [kind |-> r.kind, status |-> r.status, ret |-> r.ret, path |-> p]
          /\ calls' = Append(calls, [ri |-> ri, fi |-> fi, ret |-> r.ret])
          /\ dlReqs' = dlReqs + (IF r.requested THEN 1 ELSE 0)
          /\ IF r.raised
             \* the exception leaves download_file, download_record_data and main
             THEN /\ pc' = "crashed"
                  /\ exitCode' = 1
                  /\ success_count' = before
                  /\ UNCHANGED <<ri, fi>>
             ELSE /\ success_count' = before + (IF r.ret THEN 1 ELSE 0)
                  /\ Advance(Len(files))
    /\ UNCHANGED <<apiKey, debug, remote, cap, index, second, page, all_records,
                   list_status, listReqs, metaWrites, fsStart>>

\* the script is started again over the same data/ (line 217)
run_again ==
    /\ pc = "done"
    /\ ~second
    /\ second' = TRUE
    /\ pc' = "import"
    /\ exitCode' = -1
    /\ page' = 1
    /\ all_records' = <<>>
    /\ list_status' = 0
    /\ listReqs' = <<>>
    /\ ri' = 1
    /\ fi' = 1
    /\ success_count' = 0
    /\ calls' = <<>>
    /\ last' = NoCall
    /\ dlReqs' = 0
    /\ metaWrites' = 0
    /\ fsStart' = fs
    /\ UNCHANGED <<apiKey, debug, remote, cap, fs, index>>

\* one run against any server
Next ==
    \/ check_api_key
    \/ \E resp \in AnyResponses : get_iodp_records(resp)
    \/ main_no_records
    \/ save_metadata
    \/ download_record_data_no_files
    \/ \E o \in DownloadOutcomes : download_file(o)

Spec == Init /\ [][Next]_vars

\* one run against a server that paginates honestly or fails
NextOnce ==
    \/ check_api_key
    \/ \E resp \in EnumResponses : get_iodp_records(resp)
    \/ main_no_records
    \/ save_metadata
    \/ download_record_data_no_files
    \/ \E o \in DownloadOutcomes : download_file(o)

SpecOnce == InitStale /\ [][NextOnce]_vars

\* two runs against such a server
NextRerun ==
    \/ NextOnce
    \/ run_again

SpecRerun == InitRerun /\ [][NextRerun]_vars

\* the enumeration alone, over long listings
NextEnum ==
    \/ check_api_key
    \/ \E resp \in EnumResponses : get_iodp_records(resp)

SpecEnum == InitEnum /\ [][NextEnum]_vars

\* one run over one record, for every title
SpecTitle == InitTitle /\ [][NextOnce]_vars

(***************************************************************************)
(* Properties.                                                             *)
(***************************************************************************)
Count(n) == [i \in 1..n |-> i]

\* the records a server serving pages of n records has served after k pages
Served(k, n) == Take(remote, k * n)

\* the page size the server of the enumeration runs effectively serves
Effective == Min(size(debug), cap)

PagesNeeded ==
    IF remote = <<>> THEN 1 ELSE (Len(remote) + Effective - 1) \div Effective

\* C1: against a server that paginates honestly, whatever page size it serves,
\* and reports the true total, get_iodp_records (non-debug) returns exactly
\* the listing, in order, and has requested pages 1..ceil(n / page size) and no
\* more (one page when the listing fits in it, or is empty).
C1_Pagination ==
    (pc = "fetched" /\ ~debug /\ list_status = 200)
        => /\ all_records = remote
           /\ listReqs = Count(PagesNeeded)

\* three pages of the default size were needed
C1_Witness ==
    /\ pc = "fetched" /\ ~debug /\ list_status = 200
    /\ cap = DEFAULT_SIZE
    /\ Len(all_records) > 2 * DEFAULT_SIZE
    /\ Len(listReqs) = 3

\* C2: a listing response with a status other than 200 on page k ends
\* get_iodp_records normally with exactly the records of pages 1..k-1, page k
\* being the last page requested.
C2_ErrorStatus ==
    (list_status # 0 /\ list_status # 200)
        => /\ pc = "fetched"
           /\ listReqs = Count(Len(listReqs))
           /\ all_records = Served(Len(listReqs) - 1, Effective)

\* a 500 on page 2 after a full first page
C2_Witness ==
    /\ pc = "fetched" /\ list_status = 500 /\ ~debug
    /\ Len(listReqs) = 2
    /\ Len(all_records) = DEFAULT_SIZE
    /\ Len(remote) > DEFAULT_SIZE

CallsOf(i) == { j \in 1..Len(calls) : calls[j].ri = i }

\* C3: in debug mode, whatever the server answers, get_iodp_records holds at
\* most 2 records and download_file is called for at most 2 files of each
\* record, the first 2.
C3_DebugLimits ==
    debug => /\ Len(all_records) <= 2
             /\ \A j \in 1..Len(calls) :
                    /\ calls[j].fi <= 2
                    /\ Cardinality(CallsOf(calls[j].ri)) <= 2

\* a debug run over 2 records, the first with 3 files, came to its end
C3_Witness ==
    /\ debug /\ pc = "done"
    /\ Len(all_records) = 2
    /\ Len(all_records[1].files) = 3
    /\ Cardinality(CallsOf(1)) = 2

\* every file the mirror processes is present in f with the reported size
Mirrored(f) ==
    \A i \in 1..Len(remote) :
        \A k \in 1..Len(files_to_process(remote[i], debug)) :
            LET file_info == files_to_process(remote[i], debug)[k]
                p == file_path(remote[i], file_info)
            IN p \in DOMAIN f /\ f[p].len = SizeOf(file_info)

\* C4 as stated: a second run issues no download request and changes no file.
C4_Original ==
    second => dlReqs = 0 /\ fs = fsStart

\* C4, amended: when the first run has left every file of the records present
\* with a byte size equal to its reported size, a second run issues no
\* download request and changes no file.
C4_Idempotent ==
    (second /\ Mirrored(fsStart)) => dlReqs = 0 /\ fs = fsStart

\* a second run went through at least 2 files that the first run had fetched
\* whole, each with a reported size of at least one byte, skipped them all
\* and completed
C4_Witness ==
    /\ second /\ pc = "done"
    /\ Mirrored(fsStart)
    /\ Len(calls) >= 2
    /\ \A q \in DOMAIN fsStart : fsStart[q].len > 0 /\ fsStart[q].src = "remote"
    /\ dlReqs = 0
    /\ fs = fsStart

\* the file the next download_file call is about
CurFile == files_to_process(all_records[ri], debug)[fi]

CurPath == file_path(all_records[ri], CurFile)

\* C5: a download_file call that gets to its existence check returns True
\* without a request exactly when the target exists with the reported size,
\* and then changes nothing; in every other case it issues one request and,
\* when it returns True, the target holds the body that was sent.
C5_SkipIff ==
    [][(pc = "mirror" /\ calls' # calls /\ last'.kind # "mkdir_error")
         => LET hit == CurPath \in DOMAIN fs /\ fs[CurPath].len = SizeOf(CurFile) IN
            /\ hit <=> (last'.ret /\ dlReqs' = dlReqs)
            /\ hit => fs' = fs
            /\ ~hit => dlReqs' = dlReqs + 1
            /\ (~hit /\ last'.ret)
                 => fs' = WriteFile(fs, CurPath,
                                    Content(BodyLen(CurFile, last'.status), "remote"))]_vars

\* a file found with another size was downloaded again and overwritten
C5_Witness ==
    /\ last.kind = "ok"
    /\ last.path \in DOMAIN fsStart
    /\ fsStart[last.path].src = "stale"
    /\ fs[last.path].src = "remote"
    /\ fs[last.path].len # fsStart[last.path].len

RECURSIVE Positions(_, _)
\* every file of every record, in order: <<record index, file index>>
Positions(records, i) ==
    IF i > Len(records) THEN <<>>
    ELSE [k \in 1..Len(files_to_process(records[i], debug)) |-> <<i, k>>]
         \o Positions(records, i + 1)

\* a run that completes has called download_file for every file of every
\* record, in order
AllAttempted ==
    pc = "done"
      => [j \in 1..Len(calls) |-> <<calls[j].ri, calls[j].fi>>]
           = Positions(all_records, 1)

\* a download_file call never ends the run: the loops move on to the next
\* file or record (or main completes), and the call is counted in
\* success_count exactly when it returns True
MovesOn ==
    LET n == Len(files_to_process(all_records[ri], debug))
        before == IF fi = 1 THEN 0 ELSE success_count
    IN /\ pc' \in {"mirror", "done"}
       /\ (pc' = "done") <=> (fi = n /\ ri = Len(all_records))
       /\ pc' = "mirror"
            => <<ri', fi'>> = IF fi < n THEN <<ri, fi + 1>> ELSE <<ri + 1, 1>>
       /\ success_count' = before + (IF last'.ret THEN 1 ELSE 0)

\* no response at all (status 0 here), or a response outside 200..299
NonSuccess(status) == status = 0 \/ status < 200 \/ status >= 300

\* C6 as stated: a download_file call that issues a request never ends the
\* run, a request that meets a network error or a non-2xx status returns
\* False and is not counted in success_count, and a run that completes has
\* called download_file for every file of every record, in order.
C6_Original ==
    /\ []AllAttempted
    /\ [][(pc = "mirror" /\ dlReqs' = dlReqs + 1)
            => /\ MovesOn
               /\ NonSuccess(last'.status) => ~last'.ret]_vars

\* C6, amended: a download_file call that issues a request never ends the
\* run, a request that meets a network error or a 4xx/5xx status returns
\* False and is not counted in success_count, and a run that completes has
\* called download_file for every file of every record, in order.
C6_FailuresContinue ==
    /\ []AllAttempted
    /\ [][(pc = "mirror" /\ dlReqs' = dlReqs + 1)
            => /\ MovesOn
               /\ (last'.status = 0 \/ raise_for_status(last'.status)) => ~last'.ret]_vars

\* a run over 2 records completed although each of its 3 downloads failed
C6_Witness ==
    /\ pc = "done"
    /\ Len(all_records) = 2
    /\ Len(calls) = 3
    /\ dlReqs = 3
    /\ \A j \in 1..Len(calls) : ~calls[j].ret

\* C7: no exception leaves get_iodp_records or download_file, so main never
\* ends through a propagated exception.
C7_NoUncaught == pc # "crashed"

\* C8 as stated: both early ends are exits with a non-zero status.
C8_Original ==
    /\ pc = "no_key" => exitCode # 0 /\ listReqs = <<>> /\ dlReqs = 0
    /\ pc = "no_records" => exitCode # 0 /\ metaWrites = 0 /\ dlReqs = 0

\* C8, amended: without the API key the script exits with status 1 before any
\* request; an enumeration of zero records ends the run by a return from
\* main, with exit status 0, before the index is written and before any
\* download request, and only a non-empty enumeration is mirrored.
C8_EarlyEnds ==
    /\ ~apiKey => /\ pc \in {"import", "no_key"}
                  /\ listReqs = <<>> /\ dlReqs = 0
                  /\ pc = "no_key" => exitCode = 1
    /\ pc = "no_records" => exitCode = 0 /\ metaWrites = 0 /\ dlReqs = 0
    /\ pc \in {"mirror", "done"} => all_records # <<>> /\ metaWrites = 1

\* the enumeration ended on an error response with nothing accumulated
C8_Witness ==
    /\ pc = "no_records" /\ list_status = 500
    /\ Len(remote) > 0 /\ metaWrites = 0

AllowedChars == AlnumChars \cup {" ", "-", "_"}

\* C9: the directory name download_file computes from a title holds only
\* alphanumeric characters, spaces, hyphens and underscores, and at most 100
\* characters.
C9_SafeDir ==
    last.kind # "none"
        => /\ Len(last.path.dir) <= 100
           /\ \A i \in 1..Len(last.path.dir) : last.path.dir[i] \in AllowedChars

\* a title of more than 100 kept characters, with characters to strip
C9_Witness ==
    /\ last.kind # "none"
    /\ Len(remote[1].title.text) > 100
    /\ \E i \in 1..Len(remote[1].title.text) : remote[1].title.text[i] = "/"
    /\ Len(last.path.dir) = 100

\* C10 as stated: any status outside 2xx makes download_file return False and
\* leaves the files as they were.
C10_Original ==
    [][(calls' # calls /\ last'.status # 0
          /\ ~(last'.status >= 200 /\ last'.status < 300))
         => ~last'.ret /\ fs' = fs]_vars

\* C10, amended: a 4xx or 5xx status makes download_file return False and
\* leaves every local file, the target included, as it was.
C10_ErrorStatusKeepsFiles ==
    [][(calls' # calls /\ last'.status >= 400 /\ last'.status < 600)
         => ~last'.ret /\ fs' = fs /\ pc' # "crashed"]_vars

\* a 404 for a file that was present with another size: it is still there
C10_Witness ==
    /\ last.kind = "http_error" /\ last.status = 404
    /\ last.path \in DOMAIN fs
    /\ fs[last.path].src = "stale"

====
